---------------------------- MODULE Spec2Model ----------------------------
(***************************************************************************)
(* A model of the TEC datacore: the token chunker (ingest/chunkers.py),    *)
(* the ingestion pipeline (ingest/pipeline.py and its loaders), and the    *)
(* retrieval / rerank service (server/rag_api.py) together with the agent  *)
(* bridge that forwards to it (orchestration/server.py).                   *)
(*                                                                         *)
(* Beside these it models pii_scrub on its own (ingest/scrub.py), the      *)
(* embedding service of the lore database (services/airth) and the tool    *)
(* orchestrator (tec_mcp_server/tec_core/tool_orchestrator.py).            *)
(*                                                                         *)
(* Seven specifications share the module:                                  *)
(*   ChunkSpec / FairChunkSpec  one call of chunk_text, loop step by step  *)
(*   SearchSpec                 one POST /search, direct or via the bridge *)
(*   Spec                       runs of the pipeline's __main__ on a store *)
(*   ReingestSpec               such runs with documents edited in between *)
(*   ScrubSpec                  pii_scrub applied to its own output        *)
(*   EmbedSpec                  concurrent callers of ensure_embedding     *)
(*   ToolSpec                   calls of ToolOrchestrator.execute_tool     *)
(*                                                                         *)
(* Texts are sequences of tokens.  A token is "w" (it decodes to text with *)
(* a non-whitespace character), "s" (it decodes to whitespace only), "e"   *)
(* (an e-mail address, which pii_scrub redacts), "p" (a phone number),     *)
(* "k" (an API-key-shaped token) or "R" (the marker [REDACTED]).           *)
(* Optional[int] values and environment variables are the empty sequence   *)
(* (None / unset) or a one-element sequence.                               *)
(***************************************************************************)
EXTENDS Integers, Sequences, FiniteSets, TLC

VARIABLES
    \* ---- process environment of the chunker (os.getenv)
    envChunkTokens,   \* CHUNK_TOKENS: <<>> when unset, else <<n>>
    envChunkOverlap,  \* CHUNK_OVERLAP: <<>> when unset, else <<n>>
    \* ---- one call of chunk_text
    cpc,              \* "idle" | "loop" | "returned" | "exhausted"
    args,             \* <<>>, or <<[chunk_tokens, overlap]>>: the arguments of the call
    toks,             \* enc.encode(text)
    chunk_tokens,     \* the local chunk_tokens after line 8
    overlap,          \* the local overlap after line 9
    i,                \* window start offset
    out,              \* windows appended so far (decoded token windows)
    ret,              \* the returned list
    \* ---- server/rag_api.py: module state and one request
    RERANK_ENABLE,    \* RERANK_ENABLE == "true"
    RERANK_ALPHA,     \* weight of the vector score, in halves: 0, 1, 2 for 0.0, 0.5, 1.0
    RERANK_CAND_MULT, \* max(1, int(RERANK_CAND_MULT))
    rf_process,       \* TRUE when rapidfuzz was imported, FALSE when it is None
    rf_fails,         \* TRUE when a call of rf_process.extract raises
    coll,             \* the collection as the query sees it: entries by ascending distance
    spc,              \* "idle" | "done"
    req,              \* the request body [q, k] and the endpoint it was sent to
    queries,          \* n_results of every coll.query call made
    resp,             \* the datacore endpoint's response
    bresp,            \* the agent bridge's response
    provenance,       \* inputs of the provenance.json files the bridge wrote
    \* ---- ingest/pipeline.py: configuration, the sources, the store, a run
    SCRUB,            \* SCRUB_PII is on
    MODEL_EMBED,      \* MODEL_EMBED: <<>> when unset, else <<name>>
    OPENAI_API_KEY,   \* TRUE when OPENAI_API_KEY is set
    remote,           \* per remote connector: "off" | "nocred" | "down" | "on"
    world,            \* the documents at the sources, in the order they are listed
    store,            \* the collection "tec": id -> [text, emb, meta]
    pc,               \* "idle" | the source being ingested | "done" | "crashed" | "stuck"
    idx,              \* items of the current source's listing consumed so far
    entered,          \* the ingest functions this run has called
    written,          \* what this run has upserted: id -> [text, emb, meta]
    snap,             \* <<>>, or <<[store, written]>> as the previous completed run left them
    \* ---- ingest/scrub.py: pii_scrub applied over and over
    scrubRuns,        \* <<x, pii_scrub(x), pii_scrub(pii_scrub(x)), ...>>
    \* ---- services/airth/embedding_service.py and scripts/embed_backfill.py
    ENABLE_RAG,       \* rag_enabled()
    embeddingUnique,  \* the "Embedding" table has a unique index on (loreEntryId, model)
    Embedding,        \* the table: (loreEntryId, model) -> number of rows
    epc,              \* per worker: "idle" | "loop" | "select" | "generate" | "insert" | "done" | "crashed"
    equeue,           \* per worker: the ensure_embedding calls it has yet to make, the current one first
    ecaller,          \* per worker: "none" | "thoughtmap" | "backfill"
    eret,             \* per worker: what its last ensure_embedding call gave: "none" | "True" | "False" | "raised"
    \* ---- tec_mcp_server/tec_core/tool_orchestrator.py: one ToolOrchestrator
    available_tools,  \* the registered tool names
    execution_history,\* the records, each [tool_name, parameters, status]
    tpc,              \* "idle" | "executing" (in the handler) | "done"
    tcall,            \* <<>>, or <<[tool_name, parameters]>>: the call of execute_tool
    tresult           \* <<>>, or <<[kind, value]>>: kind "returned" or "raised"

chunkVars == <<envChunkTokens, envChunkOverlap, cpc, args, toks, chunk_tokens, overlap, i, out, ret>>

searchVars == <<RERANK_ENABLE, RERANK_ALPHA, RERANK_CAND_MULT, rf_process, rf_fails, coll,
                spc, req, queries, resp, bresp, provenance>>

ingestVars == <<SCRUB, MODEL_EMBED, OPENAI_API_KEY, remote, world, store, pc, idx, entered, written, snap>>

scrubVars == <<scrubRuns>>

embedVars == <<ENABLE_RAG, embeddingUnique, Embedding, epc, equeue, ecaller, eret>>

toolVars == <<available_tools, execution_history, tpc, tcall, tresult>>

auxVars == <<scrubVars, embedVars, toolVars>>

vars == <<chunkVars, searchVars, ingestVars, auxVars>>

-----------------------------------------------------------------------------
(* Bounds of the model *)

\* longest enumerated token sequence handed to chunk_text
MaxToks == 3

\* largest explicit chunk_tokens / overlap argument and environment value
MaxArg == 2

\* most entries in the collection a query runs against
MaxCand == 3

\* largest k of a search request
MaxK == 2

\* most documents at all the sources together
MaxDocs == 2

-----------------------------------------------------------------------------
(* Generic helpers *)

Min(a, b) == IF a < b THEN a ELSE b

Max(a, b) == IF a > b THEN a ELSE b

\* all sequences over S of length 0..n
SeqsUpTo(S, n) == UNION {[1..m -> S] : m \in 0..n}

\* Python's `x or d` for an Optional[int] x: None and 0 are falsy
PyOr(x, d) == IF x = <<>> THEN d ELSE IF x[1] = 0 THEN d ELSE x[1]

\* int(os.getenv(NAME, default)) for a variable that is unset or numeric
EnvInt(e, d) == IF e = <<>> THEN d ELSE e[1]

\* Python's s[a:b] on a sequence, a >= 0, b any integer (negative b counts
\* from the end), 0-based half-open
PySlice(s, a, b) ==
    LET n  == Len(s)
        bb == IF b < 0 THEN Max(b + n, 0) ELSE Min(b, n)
        aa == Min(a, n)
    IN  IF aa >= bb THEN <<>> ELSE SubSeq(s, aa + 1, bb)

-----------------------------------------------------------------------------
(* ingest/chunkers.py *)

DefaultChunkTokens == 800

DefaultChunkOverlap == 120

IsSpace(t) == t = "s"

\* str.strip() on a decoded window: leading and trailing whitespace tokens go
RECURSIVE LStrip(_)
LStrip(s) == IF s = <<>> THEN <<>>
             ELSE IF IsSpace(Head(s)) THEN LStrip(Tail(s)) ELSE s

RECURSIVE RStrip(_)
RStrip(s) == IF s = <<>> THEN <<>>
             ELSE IF IsSpace(s[Len(s)]) THEN RStrip(SubSeq(s, 1, Len(s) - 1)) ELSE s

Strip(s) == RStrip(LStrip(s))

\* [c.strip() for c in out if c.strip()]
RECURSIVE StripNonEmpty(_)
StripNonEmpty(ws) ==
    IF ws = <<>> THEN <<>>
    ELSE IF Strip(Head(ws)) = <<>> THEN StripNonEmpty(Tail(ws))
         ELSE <<Strip(Head(ws))>> \o StripNonEmpty(Tail(ws))

\* j = min(i + chunk_tokens, len(toks))
WindowEnd(n, ct, start) == Min(start + ct, n)

\* i = j - overlap; if i < 0: i = 0
NextStart(j, ov) == IF j - ov < 0 THEN 0 ELSE j - ov

\* a document of n tokens, all of them non-whitespace
AllWords(n) == [k \in 1..n |-> "w"]

\* the most windows a returning call over the enumerated inputs appends; the
\* list `out` of a call that keeps looping grows until memory runs out
MaxOut == MaxToks + 1

SmallTexts == SeqsUpTo({"w", "s"}, MaxToks)

\* long documents, chunked under the default sizes only
LongTexts == {AllWords(n) : n \in {DefaultChunkOverlap, DefaultChunkOverlap + 1,
                                   DefaultChunkTokens, DefaultChunkTokens + 1, 2000}}

OptInts == {<<>>} \cup {<<n>> : n \in -1..MaxArg}

\* no call of chunk_text in progress
ChunkIdle ==
    /\ envChunkTokens = <<>>
    /\ envChunkOverlap = <<>>
    /\ cpc = "idle"
    /\ args = <<>>
    /\ toks = <<>>
    /\ chunk_tokens = 0
    /\ overlap = 0
    /\ i = 0
    /\ out = <<>>
    /\ ret = <<>>

\* no scrubbing of its own in the picture
ScrubIdle == scrubRuns = <<>>

\* no embedding service in the picture
EmbedIdle ==
    /\ ENABLE_RAG = FALSE
    /\ embeddingUnique = FALSE
    /\ Embedding = <<>>
    /\ epc = <<>>
    /\ equeue = <<>>
    /\ ecaller = <<>>
    /\ eret = <<>>

\* no tool orchestrator in the picture
ToolIdle ==
    /\ available_tools = {}
    /\ execution_history = <<>>
    /\ tpc = "idle"
    /\ tcall = <<>>
    /\ tresult = <<>>

\* none of the components beside chunker, search and pipeline in the picture
AuxIdle == ScrubIdle /\ EmbedIdle /\ ToolIdle

\* no search service in the picture
SearchIdle ==
    /\ RERANK_ENABLE = FALSE
    /\ RERANK_ALPHA = 1
    /\ RERANK_CAND_MULT = 3
    /\ rf_process = TRUE
    /\ rf_fails = FALSE
    /\ coll = <<>>
    /\ spc = "idle"
    /\ req = <<>>
    /\ queries = <<>>
    /\ resp = <<>>
    /\ bresp = <<>>
    /\ provenance = <<>>

\* no pipeline in the picture
IngestIdle ==
    /\ SCRUB = TRUE
    /\ MODEL_EMBED = <<>>
    /\ OPENAI_API_KEY = FALSE
    /\ remote = <<>>
    /\ world = <<>>
    /\ store = [x \in {} |-> x]
    /\ pc = "idle"
    /\ idx = 0
    /\ entered = {}
    /\ written = [x \in {} |-> x]
    /\ snap = <<>>

ChunkInit ==
    /\ SearchIdle
    /\ IngestIdle
    /\ AuxIdle
    /\ envChunkTokens \in OptInts
    /\ envChunkOverlap \in OptInts
    /\ cpc = "idle"
    /\ args = <<>>
    /\ toks = <<>>
    /\ chunk_tokens = 0
    /\ overlap = 0
    /\ i = 0
    /\ out = <<>>
    /\ ret = <<>>

\* lines 6-13: resolve the sizes, tokenize, i = 0
ChunkCall ==
    /\ cpc = "idle"
    /\ \E text \in SmallTexts \cup LongTexts, argCT \in OptInts, argOV \in OptInts :
          LET ct == PyOr(argCT, EnvInt(envChunkTokens, DefaultChunkTokens))
              ov == PyOr(argOV, EnvInt(envChunkOverlap, DefaultChunkOverlap))
          IN  /\ Len(text) > MaxToks => (ct = DefaultChunkTokens /\ ov = DefaultChunkOverlap)
              /\ toks' = text
              /\ args' = <<[chunk_tokens |-> argCT, overlap |-> argOV]>>
              /\ chunk_tokens' = ct
              /\ overlap' = ov
    /\ i' = 0
    /\ out' = <<>>
    /\ cpc' = "loop"
    /\ UNCHANGED <<envChunkTokens, envChunkOverlap, ret>>
    /\ UNCHANGED <<searchVars, ingestVars, auxVars>>

\* lines 14-19: one iteration of the while loop
ChunkIter ==
    /\ cpc = "loop"
    /\ i < Len(toks)
    /\ Len(out) < MaxOut
    /\ LET j == WindowEnd(Len(toks), chunk_tokens, i)
       IN  /\ out' = Append(out, PySlice(toks, i, j))
           /\ i' = NextStart(j, overlap)
    /\ UNCHANGED <<envChunkTokens, envChunkOverlap, cpc, args, toks, chunk_tokens, overlap, ret>>
    /\ UNCHANGED <<searchVars, ingestVars, auxVars>>

\* the loop is still running with more windows appended than any returning
\* call appends: it never exits, and `out` grows until the process is out of
\* memory
ChunkExhaust ==
    /\ cpc = "loop"
    /\ i < Len(toks)
    /\ Len(out) >= MaxOut
    /\ cpc' = "exhausted"
    /\ UNCHANGED <<envChunkTokens, envChunkOverlap, args, toks, chunk_tokens, overlap, i, out, ret>>
    /\ UNCHANGED <<searchVars, ingestVars, auxVars>>

\* line 14 false, line 20
ChunkReturn ==
    /\ cpc = "loop"
    /\ i >= Len(toks)
    /\ ret' = StripNonEmpty(out)
    /\ cpc' = "returned"
    /\ UNCHANGED <<envChunkTokens, envChunkOverlap, args, toks, chunk_tokens, overlap, i, out>>
    /\ UNCHANGED <<searchVars, ingestVars, auxVars>>

ChunkNext == ChunkCall \/ ChunkIter \/ ChunkExhaust \/ ChunkReturn

ChunkSpec == ChunkInit /\ [][ChunkNext]_vars

\* the interpreter keeps executing the loop: a call in progress takes its
\* next step
FairChunkSpec == ChunkSpec /\ WF_vars(ChunkNext)

\* chunk_text as a function of its resolved inputs, for the callers that use
\* its result: the same loop, which never exits once a window start repeats
\* (the loop's only state is i).  returns = FALSE stands for the call that
\* never returns.
RECURSIVE ChunkLoop(_, _, _, _, _, _)
ChunkLoop(t, ct, ov, start, acc, seen) ==
    IF start >= Len(t) THEN [returns |-> TRUE, chunks |-> StripNonEmpty(acc)]
    ELSE IF start \in seen THEN [returns |-> FALSE, chunks |-> <<>>]
    ELSE LET j == WindowEnd(Len(t), ct, start)
         IN  ChunkLoop(t, ct, ov, NextStart(j, ov),
                       Append(acc, PySlice(t, start, j)), seen \cup {start})

ChunkText(t, ct, ov) == ChunkLoop(t, ct, ov, 0, <<>>, {})

\* the step-by-step loop and the function agree: a call returns what the
\* function gives, and runs out of memory only where the function loops
ChunkModelsAgree ==
    /\ cpc = "returned" =>
          /\ ChunkText(toks, chunk_tokens, overlap).returns
          /\ ChunkText(toks, chunk_tokens, overlap).chunks = ret
    /\ cpc = "exhausted" => ~ChunkText(toks, chunk_tokens, overlap).returns

-----------------------------------------------------------------------------
(* Claims about chunk_text *)

\* C1: chunk_text terminates on every finite text whenever
\* 0 <= overlap < chunk_tokens: the window start reaches the number of tokens
\* and the call returns.
C1_ChunkTextTerminates ==
    [](cpc = "loop" /\ 0 <= overlap /\ overlap < chunk_tokens
         => <>(cpc = "returned"))

\* ceil(max(N - 120, 0) / 680)
ClaimedChunkCount(n) ==
    LET step == DefaultChunkTokens - DefaultChunkOverlap
        m    == Max(n - DefaultChunkOverlap, 0)
    IN  (m + step - 1) \div step

\* C2: with chunk_size = 800 and overlap = 120 a document of N tokens is
\* returned as exactly ceil(max(N-120,0)/680) chunks (3 chunks for N = 2000).
C2_ChunkCount ==
    [](cpc = "loop" /\ chunk_tokens = DefaultChunkTokens /\ overlap = DefaultChunkOverlap
         => <>(cpc = "returned" /\ Len(ret) = ClaimedChunkCount(Len(toks))))

\* the sizes are such as the contract allows: a window of at least one
\* token and an overlap that is not negative
SizesPositive == chunk_tokens >= 1 /\ overlap >= 0

\* C23: on every iteration of the loop the window start goes up by at least
\* one token, also when overlap >= chunk_tokens, so that the loop ends under
\* that misconfiguration as well.
C23_AdvanceAtLeastOne ==
    [][(cpc = "loop" /\ SizesPositive /\ out' # out) => i' >= i + 1]_vars

\* C27: the windows are taken in strictly increasing order of their start
\* and without a gap: a window that follows another starts after it
\* started, and exactly overlap tokens before its end.
C27_WindowsOrderedNoGap ==
    [][(cpc = "loop" /\ SizesPositive /\ overlap < chunk_tokens
          /\ out' # out /\ i' < Len(toks))
        => (i' > i /\ i' = WindowEnd(Len(toks), chunk_tokens, i) - overlap)]_vars

\* C28: the sizes the caller passes are the sizes used; a call with
\* overlap = 0 runs with overlap 0, its windows sharing no token, whatever
\* default is configured.
C28_PassedSizesUsed ==
    cpc # "idle" =>
        /\ (args[1].chunk_tokens # <<>> /\ args[1].chunk_tokens[1] >= 1)
              => chunk_tokens = args[1].chunk_tokens[1]
        /\ (args[1].overlap # <<>> /\ args[1].overlap[1] >= 0)
              => overlap = args[1].overlap[1]

-----------------------------------------------------------------------------
(* server/rag_api.py: the datacore search endpoint.                        *)
(* Scores are exact rationals written in units of 1/24: a distance d in    *)
(* {0, 1, 3} has vector score 24, 12, 6 and a RapidFuzz score 0, 50, 100   *)
(* has lexical score 0, 12, 24.                                            *)

Dists == {0, 1, 3}

FuzzScores == {0, 50, 100}

\* an entry of the collection, as one query sees it: its distance to the
\* query embedding and the token_set_ratio of the query against its text
CollEntries == [d : Dists, fuzz : FuzzScores]

IsAscending(c) == \A a \in 1..Len(c), b \in 1..Len(c) : a < b => c[a].d <= c[b].d

\* line 47: 1.0 / (1.0 + d)
VecScore(d) == 24 \div (1 + d)

\* line 57: score / 100.0
LexScore(fuzz) == (fuzz * 24) \div 100

\* the weights applied the wrong way round: alpha on the lexical score
FusedSwapped(alpha, vec, lex) == ((alpha * lex) + ((2 - alpha) * vec)) \div 2

\* line 63: (RERANK_ALPHA * vec) + ((1.0 - RERANK_ALPHA) * lex), alpha in halves
Fused(alpha, vec, lex) == ((alpha * vec) + ((2 - alpha) * lex)) \div 2

\* coll.query(n_results = n): chromadb rejects n <= 0 and otherwise returns
\* the n nearest entries, nearest first, or all of them when there are fewer
QueryRaises(n) == n <= 0

StoreQuery(c, n) == SubSeq(c, 1, Min(n, Len(c)))

\* a descending sort that is not stable: of two pairs with the same key the
\* later one comes first
RECURSIVE InsertDescTiesFirst(_, _)
InsertDescTiesFirst(s, x) ==
    IF s = <<>> THEN <<x>>
    ELSE IF Head(s).final > x.final THEN <<Head(s)>> \o InsertDescTiesFirst(Tail(s), x)
         ELSE <<x>> \o s

\* list.sort(reverse=True, key=final) is stable: of two pairs with the same
\* key the one that came first stays first
RECURSIVE InsertDesc(_, _)
InsertDesc(s, x) ==
    IF s = <<>> THEN <<x>>
    ELSE IF Head(s).final >= x.final THEN <<Head(s)>> \o InsertDesc(Tail(s), x)
         ELSE <<x>> \o s

RECURSIVE SortDesc(_)
SortDesc(s) ==
    IF s = <<>> THEN <<>>
    ELSE InsertDesc(SortDesc(SubSeq(s, 1, Len(s) - 1)), s[Len(s)])

\* lines 59-64: (final, i) for every candidate, i its 0-based vector rank
Combined(cands, alpha) ==
    [n \in 1..Len(cands) |->
        [final |-> Fused(alpha, VecScore(cands[n].d), LexScore(cands[n].fuzz)),
         i |-> n - 1]]

\* lines 66-73: sort, cut to k, build the results
RerankResults(cands, alpha, k) ==
    LET top == PySlice(SortDesc(Combined(cands, alpha)), 0, k)
    IN  [n \in 1..Len(top) |-> [score |-> top[n].final, doc |-> top[n].i]]

\* the vector path without its cut to k
VectorResultsUncut(cands, k) ==
    [n \in 1..Len(cands) |-> [score |-> VecScore(cands[n].d), doc |-> n - 1]]

\* lines 75-80: the first k candidates in the order the store returned them
VectorResults(cands, k) ==
    LET top == PySlice(cands, 0, k)
    IN  [n \in 1..Len(top) |-> [score |-> VecScore(top[n].d), doc |-> n - 1]]

\* the pool widened by the multiplier whether reranking is on or not
NResultsAlwaysMult(enable, mult, k) == k * mult

\* line 36
NResults(enable, mult, k) == IF enable THEN k * mult ELSE k

\* lines 30-80: the handler.  A result is [score, doc], doc the 0-based rank
\* of the entry whose source and text it carries.  status 500 is an
\* exception nothing handles: the store's, or the one rf_process.extract
\* raises (fails), for lines 55-57 stand in no try block.
RagSearch(enable, alpha, mult, rf, fails, c, q, k) ==
    IF Strip(q) = <<>>
    THEN [status |-> 200, results |-> <<>>, queried |-> <<>>]
    ELSE LET n == NResults(enable, mult, k)
         IN  IF QueryRaises(n)
             THEN [status |-> 500, results |-> <<>>, queried |-> <<n>>]
             ELSE LET cands == StoreQuery(c, n)
                  IN  IF enable /\ rf /\ Len(cands) > 0 /\ fails
                      THEN [status |-> 500, results |-> <<>>, queried |-> <<n>>]
                      ELSE [status  |-> 200,
                            results |-> IF enable /\ rf /\ Len(cands) > 0
                                        THEN RerankResults(cands, alpha, k)
                                        ELSE VectorResults(cands, k),
                            queried |-> <<n>>]

-----------------------------------------------------------------------------
(* orchestration/server.py: the agent bridge's /search *)

BridgeMinK == 1

BridgeMaxK == 50

\* line 58: SearchResult(query=req.q, results=data.get("results") or data).
\* An empty list is falsy, so `or` hands the whole body, a dict, to a field
\* declared List[dict]: validation fails and the request ends in a 500.
BridgeResults(data) ==
    IF data.results = <<>>
    THEN [valid |-> FALSE, results |-> <<>>]
    ELSE [valid |-> TRUE, results |-> data.results]

\* lines 46-58.  422: the request model rejects k; 502: the datacore call
\* did not succeed.
BridgeSearch(data, q, k) ==
    IF k < BridgeMinK \/ k > BridgeMaxK
    THEN [status |-> 422, query |-> <<>>, results |-> <<>>, wrote |-> FALSE]
    ELSE IF data.status # 200
    THEN [status |-> 502, query |-> <<>>, results |-> <<>>, wrote |-> FALSE]
    ELSE IF ~BridgeResults(data).valid
    THEN [status |-> 500, query |-> <<>>, results |-> <<>>, wrote |-> TRUE]
    ELSE [status |-> 200, query |-> q, results |-> BridgeResults(data).results,
          wrote |-> TRUE]

-----------------------------------------------------------------------------
(* One search request against a collection *)

QueryTexts == {<<>>, <<"s">>, <<"w">>}

RequestKs == (0..MaxK) \cup {BridgeMaxK + 1}

SearchInit ==
    /\ ChunkIdle
    /\ IngestIdle
    /\ AuxIdle
    /\ RERANK_ENABLE \in BOOLEAN
    /\ RERANK_ALPHA \in {0, 1, 2}
    /\ RERANK_CAND_MULT \in {Max(1, e) : e \in 0..2}
    /\ rf_process \in BOOLEAN
    /\ rf_fails \in {f \in BOOLEAN : f => rf_process}
    /\ coll \in {c \in SeqsUpTo(CollEntries, MaxCand) : IsAscending(c)}
    /\ spc = "idle"
    /\ req = <<>>
    /\ queries = <<>>
    /\ resp = <<>>
    /\ bresp = <<>>
    /\ provenance = <<>>

\* POST /search sent to the datacore endpoint
DatacoreRequest ==
    /\ spc = "idle"
    /\ \E q \in QueryTexts, k \in RequestKs :
          LET r == RagSearch(RERANK_ENABLE, RERANK_ALPHA, RERANK_CAND_MULT,
                             rf_process, rf_fails, coll, q, k)
          IN  /\ req' = [q |-> q, k |-> k, to |-> "datacore"]
              /\ resp' = [status |-> r.status, results |-> r.results]
              /\ queries' = queries \o r.queried
    /\ spc' = "done"
    /\ UNCHANGED <<RERANK_ENABLE, RERANK_ALPHA, RERANK_CAND_MULT, rf_process, rf_fails,
                   coll, bresp, provenance>>
    /\ UNCHANGED <<chunkVars, ingestVars, auxVars>>

\* POST /search sent to the agent bridge, which forwards it
BridgeRequest ==
    /\ spc = "idle"
    /\ \E q \in QueryTexts, k \in RequestKs :
          LET valid == k >= BridgeMinK /\ k <= BridgeMaxK
              r == RagSearch(RERANK_ENABLE, RERANK_ALPHA, RERANK_CAND_MULT,
                             rf_process, rf_fails, coll, q, k)
              b == BridgeSearch(r, q, k)
          IN  /\ req' = [q |-> q, k |-> k, to |-> "bridge"]
              /\ resp' = IF valid THEN [status |-> r.status, results |-> r.results]
                         ELSE resp
              /\ queries' = IF valid THEN queries \o r.queried ELSE queries
              /\ bresp' = [status |-> b.status, query |-> b.query, results |-> b.results]
              /\ provenance' = IF b.wrote THEN Append(provenance, [q |-> q, k |-> k])
                               ELSE provenance
    /\ spc' = "done"
    /\ UNCHANGED <<RERANK_ENABLE, RERANK_ALPHA, RERANK_CAND_MULT, rf_process, rf_fails,
                   coll>>
    /\ UNCHANGED <<chunkVars, ingestVars, auxVars>>

SearchNext == DatacoreRequest \/ BridgeRequest

SearchSpec == SearchInit /\ [][SearchNext]_vars

-----------------------------------------------------------------------------
(* Claims about search *)

\* a request was answered by the datacore endpoint itself
AnsweredByDatacore == spc = "done" /\ req.to = "datacore"

\* C7: search with k <= 0 returns an empty result list immediately, without
\* querying the vector store, for every query text and store content.
C7_NonPositiveKReturnsEmpty ==
    (AnsweredByDatacore /\ req.k <= 0)
        => (resp = [status |-> 200, results |-> <<>>] /\ queries = <<>>)

\* C8: POST /search with an empty or whitespace-only q returns exactly
\* {results: []} whatever the store holds, at the datacore endpoint and
\* through the agent bridge (for a k the bridge accepts).
C8_BlankQueryEmptyResults ==
    (spc = "done" /\ Strip(req.q) = <<>>)
        => /\ req.to = "datacore" => resp = [status |-> 200, results |-> <<>>]
           /\ (req.to = "bridge" /\ req.k >= BridgeMinK /\ req.k <= BridgeMaxK)
                 => (bresp.status = 200 /\ bresp.results = <<>>)

\* the docs of a result list, in order
DocsOf(results) == [n \in 1..Len(results) |-> results[n].doc]

\* the candidates the rerank path of the answered request pulled
Pool == StoreQuery(coll, req.k * RERANK_CAND_MULT)

\* the rerank path ran: reranking on, RapidFuzz present, store answered
Reranked ==
    /\ AnsweredByDatacore
    /\ RERANK_ENABLE
    /\ rf_process
    /\ resp.status = 200
    /\ Strip(req.q) # <<>>

\* C9: with reranking enabled and alpha = 1.0 the returned order is the
\* vector-only order (what the same request returns with reranking off);
\* with alpha = 0.0 it is the order by lexical score alone: lexical scores
\* never increase down the list and no candidate left out scores higher
\* than one returned.
C9_RerankDegeneracy ==
    /\ (AnsweredByDatacore /\ RERANK_ENABLE /\ resp.status = 200 /\ RERANK_ALPHA = 2)
          => DocsOf(resp.results)
               = DocsOf(RagSearch(FALSE, RERANK_ALPHA, RERANK_CAND_MULT, rf_process,
                                  rf_fails, coll, req.q, req.k).results)
    /\ (Reranked /\ RERANK_ALPHA = 0)
          => LET res == resp.results
                 lex(doc) == Pool[doc + 1].fuzz
             IN  /\ \A n \in 1..(Len(res) - 1) : lex(res[n].doc) >= lex(res[n + 1].doc)
                 /\ \A c \in 0..(Len(Pool) - 1) :
                       (\A n \in 1..Len(res) : res[n].doc # c)
                          => \A n \in 1..Len(res) : lex(c) <= lex(res[n].doc)

\* alpha = 1.0, two results came back, and the lexical order of the two
\* nearest entries is the reverse of their vector order
C9_Witness ==
    /\ Reranked
    /\ RERANK_ALPHA = 2
    /\ Len(resp.results) >= 2
    /\ coll[1].d < coll[2].d
    /\ coll[1].fuzz < coll[2].fuzz

\* C10: with reranking enabled the results are in non-increasing order of
\* the fused score f = alpha*v + (1-alpha)*l, two results with equal f are
\* in their vector-rank order, and the list is the first k of that order.
C10_RerankSortedStable ==
    Reranked =>
        LET res == resp.results
            f(doc) == Fused(RERANK_ALPHA, VecScore(Pool[doc + 1].d), LexScore(Pool[doc + 1].fuzz))
            before(a, b) == f(a) > f(b) \/ (f(a) = f(b) /\ a < b)
        IN  /\ Len(res) = Min(req.k, Len(Pool))
            /\ \A n \in 1..Len(res) :
                  /\ res[n].doc \in 0..(Len(Pool) - 1)
                  /\ res[n].score = f(res[n].doc)
            /\ \A n \in 1..(Len(res) - 1) : before(res[n].doc, res[n + 1].doc)
            /\ \A c \in 0..(Len(Pool) - 1) :
                  (\A n \in 1..Len(res) : res[n].doc # c)
                     => \A n \in 1..Len(res) : before(res[n].doc, c)

\* two results with the same fused score came back, the second of them
\* nearer in lexical score than the first, and a candidate was cut off
C10_Witness ==
    /\ Reranked
    /\ Len(resp.results) >= 2
    /\ resp.results[1].score = resp.results[2].score
    /\ Pool[resp.results[1].doc + 1].fuzz < Pool[resp.results[2].doc + 1].fuzz
    /\ Len(Pool) > Len(resp.results)

\* a request with k >= 1 and a non-blank q, sent to the datacore endpoint
ProperRequest ==
    /\ AnsweredByDatacore
    /\ req.k >= 1
    /\ Strip(req.q) # <<>>

\* the number of candidates the store handed back for the answered request
Returned == Min(IF RERANK_ENABLE THEN req.k * RERANK_CAND_MULT ELSE req.k, Len(coll))

\* C11: a search with k >= 1 and a non-blank query that is answered returns
\* exactly min(k, candidates the store returned) results, never more than k
\* and never padded, with reranking on and with reranking off.
C11_ResultCount ==
    (ProperRequest /\ resp.status = 200) =>
        /\ Len(resp.results) = Min(req.k, Returned)
        /\ Len(resp.results) <= req.k
        /\ \A n \in 1..Len(resp.results) : resp.results[n].doc \in 0..(Returned - 1)

\* the store held fewer entries than k and every one of them came back
C11_Witness ==
    /\ ProperRequest
    /\ resp.status = 200
    /\ RERANK_ENABLE
    /\ Len(coll) >= 1
    /\ Len(coll) < req.k
    /\ Len(resp.results) = Len(coll)

\* C12: the pool asked of the store is exactly k with reranking off and
\* k * multiplier, multiplier >= 1, with reranking on; with reranking off
\* the results are the store's candidates in its ascending-distance order,
\* each scored 1/(1+d), so the scores never increase down the list.
C12_PoolSizeAndVectorOrder ==
    ProperRequest =>
        /\ RERANK_CAND_MULT >= 1
        /\ queries = <<IF RERANK_ENABLE THEN req.k * RERANK_CAND_MULT ELSE req.k>>
        /\ ~RERANK_ENABLE =>
              /\ resp.status = 200
              /\ Len(resp.results) = Min(req.k, Len(coll))
              /\ \A n \in 1..Len(resp.results) :
                    /\ resp.results[n].doc = n - 1
                    /\ resp.results[n].score = 24 \div (1 + coll[n].d)
              /\ \A n \in 1..(Len(resp.results) - 1) :
                    resp.results[n].score >= resp.results[n + 1].score

\* reranking off, a multiplier above 1, and two results at different
\* distances out of a larger collection
C12_Witness ==
    /\ ProperRequest
    /\ ~RERANK_ENABLE
    /\ RERANK_CAND_MULT > 1
    /\ Len(resp.results) = 2
    /\ Len(coll) > 2
    /\ coll[1].d < coll[2].d

\* C13: with reranking enabled and the lexical scorer missing or failing,
\* the request is still answered, with the first k candidates in the
\* store's ascending-distance order.
C13_ScorerFailureDegrades ==
    (ProperRequest /\ RERANK_ENABLE /\ (~rf_process \/ rf_fails)) =>
        /\ resp.status = 200
        /\ Len(resp.results) = Min(req.k, Len(coll))
        /\ \A n \in 1..Len(resp.results) :
              /\ resp.results[n].doc = n - 1
              /\ resp.results[n].score = VecScore(coll[n].d)

-----------------------------------------------------------------------------
(* ingest/pipeline.py and the loaders.                                     *)
(* A path or name is a sequence of pieces: "/" is the separator, ".md",    *)
(* ".txt", ".key", ".env" are a final extension (".env" alone is the file  *)
(* of that name), "*" in a pattern is fnmatch's star, every other piece is *)
(* literal text without a separator.                                       *)

EmptyMap == [x \in {} |-> x]

\* fnmatch.fnmatch(name, pat): "*" matches any run of characters, "/"
\* included; everything else matches itself; the whole name must match
RECURSIVE FnMatch(_, _)
FnMatch(name, pat) ==
    IF pat = <<>> THEN name = <<>>
    ELSE IF Head(pat) = "*"
         THEN FnMatch(name, Tail(pat)) \/ (name # <<>> /\ FnMatch(Tail(name), pat))
         ELSE name # <<>> /\ Head(name) = Head(pat) /\ FnMatch(Tail(name), Tail(pat))

\* line 33, BLOCKLIST_GLOBS unset: **/secrets/**, **/*.key, **/.env
BLOCKLIST ==
    { <<"*", "*", "/", "secrets", "/", "*", "*">>,
      <<"*", "*", "/", "*", ".key">>,
      <<"*", "*", "/", ".env">> }

\* the arguments of fnmatch the wrong way round
BlockedSwapped(path) == \E pat \in BLOCKLIST : FnMatch(pat, path)

\* lines 36-40
Blocked(path) == \E pat \in BLOCKLIST : FnMatch(path, pat)

\* lines 42-43, 71: sha1 of name + "#" + k, a value that differs whenever
\* (name, k) differs
DocId(name, k) == <<name, k>>

\* line 30: RAW_ROOT, resolved
RAW_ROOT == <<"/", "raw", "/">>

\* lines 45-52: the first directory below RAW_ROOT, "misc" for a file right
\* in it or a path not below it
PathCategory(name) ==
    IF /\ Len(name) > Len(RAW_ROOT) + 1
       /\ SubSeq(name, 1, Len(RAW_ROOT)) = RAW_ROOT
       /\ name[Len(RAW_ROOT) + 2] = "/"
    THEN name[Len(RAW_ROOT) + 1]
    ELSE "misc"

\* loaders.py lines 22-25: MarkdownIt wraps the text in block tags and every
\* tag becomes a space
ReadMd(b) == <<"s">> \o b \o <<"s">>

\* loaders.py lines 34-41: by extension; an unknown extension gives ""
SniffAndText(name, b) ==
    IF name = <<>> THEN <<>>
    ELSE IF name[Len(name)] = ".md" THEN ReadMd(b)
    ELSE IF name[Len(name)] = ".txt" THEN b
    ELSE <<>>

\* scrub.py line 5 and 12: EMAIL.sub; an address becomes the marker
EmailSub(t) == [n \in 1..Len(t) |-> IF t[n] = "e" THEN "R" ELSE t[n]]

\* scrub.py line 6 and 13: PHONE.sub; the pattern has no anchor, so a
\* number is replaced wherever it stands
PhoneSub(t) == [n \in 1..Len(t) |-> IF t[n] = "p" THEN "R" ELSE t[n]]

\* tokens that begin and end with a word character (\w); white space and
\* the marker, which is bracketed, do not
WordTokens == {"w", "e", "p", "k"}

\* scrub.py line 7 and 14: KEYLIKE.sub; the pattern stands between two \b,
\* so a key glued to a word character before or after it is not matched
KeySub(t) ==
    [n \in 1..Len(t) |->
        IF /\ t[n] = "k"
           /\ (n = 1 \/ t[n - 1] \notin WordTokens)
           /\ (n = Len(t) \/ t[n + 1] \notin WordTokens)
        THEN "R" ELSE t[n]]

\* the three substitutions with the key pattern applied first
PiiScrubKeyFirst(t) == PhoneSub(EmailSub(KeySub(t)))

\* scrub.py lines 11-15: e-mail, then phone, then key-like tokens
PiiScrub(t) == KeySub(PhoneSub(EmailSub(t)))

\* embedder.py lines 28-52: the hashed bag of characters (weight 1) and of
\* 3-grams (weight 2), hash buckets taken as distinct and the common L2
\* factor left out
EmbedLocal(t) ==
    LET grams == {SubSeq(t, n, n + 2) : n \in 1..(Len(t) - 2)}
    IN  [chars |-> [c \in {t[n] : n \in DOMAIN t} |->
                       Cardinality({n \in DOMAIN t : t[n] = c})],
         tris  |-> [g \in grams |->
                       2 * Cardinality({n \in 1..(Len(t) - 2) : SubSeq(t, n, n + 2) = g})]]

\* embedder.py lines 63-70: the vectors the embedding service returns for
\* the batch, one per input and in input order; a vector is taken to be a
\* function of the model and the text
EmbedRemote(model, t) == [model |-> model, of |-> t]

\* embedder.py line 58: the local embedder when MODEL_EMBED is "local" or
\* no key is set, whatever model is named
UseLocal == MODEL_EMBED = <<"local">> \/ ~OPENAI_API_KEY

\* embedder.py lines 54-70: one vector per text, in order, tagged here with
\* the backend that produced it
Embed(texts) ==
    [n \in 1..Len(texts) |->
        IF UseLocal
        THEN [backend |-> "local", vec |-> EmbedLocal(texts[n])]
        ELSE [backend |-> "openai",
              vec |-> EmbedRemote(IF MODEL_EMBED = <<>> THEN "text-embedding-3-large"
                                  ELSE MODEL_EMBED[1], texts[n])]]

\* pipeline.py line 31
PROJECT_NAME == "TEC_NWO"

\* lines 74-75 and their copies: the metadata of a file, repo or drive chunk
FullMeta(name) == [source |-> name, project |-> PROJECT_NAME, category |-> PathCategory(name)]

\* line 159: the metadata of a mailbox chunk
MailMeta(name) == [source |-> name]

\* what chunk_text(txt) does in the pipeline: no explicit sizes
PipelineChunks(txt) ==
    ChunkText(txt, PyOr(<<>>, EnvInt(envChunkTokens, DefaultChunkTokens)),
                   PyOr(<<>>, EnvInt(envChunkOverlap, DefaultChunkOverlap)))

\* an upsert whose embeddings are one position off their chunks
EntriesShifted(name, chunks, meta) ==
    LET embs == Embed(chunks)
    IN  [id \in {DocId(name, k) : k \in 0..(Len(chunks) - 1)} |->
            [text |-> chunks[id[2] + 1],
             emb  |-> embs[((id[2] + 1) % Len(chunks)) + 1],
             meta |-> meta]]

\* lines 71-76 and their copies: ids, embeddings and metadatas of the
\* chunks of one document, as one upsert: id -> [text, emb, meta]
Entries(name, chunks, meta) ==
    LET embs == Embed(chunks)
    IN  [id \in {DocId(name, k) : k \in 0..(Len(chunks) - 1)} |->
            [text |-> chunks[id[2] + 1], emb |-> embs[id[2] + 1], meta |-> meta]]

\* a store that appends: an entry whose id is taken goes in under a fresh id
UpsertAppends(st, entries) ==
    LET Fresh(id) == IF id \in DOMAIN st THEN <<id[1], id[2] + 100>> ELSE id
    IN  [id \in DOMAIN st \cup {Fresh(e) : e \in DOMAIN entries} |->
            IF \E e \in DOMAIN entries : Fresh(e) = id
            THEN entries[CHOOSE e \in DOMAIN entries : Fresh(e) = id]
            ELSE st[id]]

\* an upsert that replaces a document: it drops the stored entries of the
\* sources it writes that are not written again
UpsertCompacting(st, entries) ==
    LET Named(id) == \E e \in DOMAIN entries : e[1] = id[1]
        kept == {id \in DOMAIN st : ~Named(id)}
    IN  [id \in kept \cup DOMAIN entries |->
            IF id \in DOMAIN entries THEN entries[id] ELSE st[id]]

\* coll.upsert: insert or overwrite by id
Upsert(st, entries) ==
    [id \in DOMAIN st \cup DOMAIN entries |->
        IF id \in DOMAIN entries THEN entries[id] ELSE st[id]]

\* lines 61-76 and their copies: one document through the loop body, txt
\* its extracted text.  kind is "skip" (a continue), "stuck" (chunk_text
\* never returns) or "upsert".
LoopBody(name, txt, meta) ==
    IF Blocked(name) THEN [kind |-> "skip", entries |-> EmptyMap]
    ELSE IF Strip(txt) = <<>> THEN [kind |-> "skip", entries |-> EmptyMap]
    ELSE LET scrubbed == IF SCRUB THEN PiiScrub(txt) ELSE txt
             res      == PipelineChunks(scrubbed)
         IN  IF ~res.returns THEN [kind |-> "stuck", entries |-> EmptyMap]
             ELSE IF res.chunks = <<>> THEN [kind |-> "skip", entries |-> EmptyMap]
             ELSE [kind |-> "upsert", entries |-> Entries(name, res.chunks, meta)]

-----------------------------------------------------------------------------
(* The sources and one run of __main__ (pipeline.py lines 162-167) *)

Sources == <<"fs", "transcripts", "github", "gdrive", "gmail">>

Remotes == {"github", "gdrive", "gmail"}

Rank(src) == CHOOSE n \in DOMAIN Sources : Sources[n] = src

\* per source, a name no blocklist pattern is meant for ...
PlainNames(src) ==
    CASE src = "fs" -> { <<"/", "raw", "/", "notes", "/", "a", ".md">> }
      [] src = "transcripts" -> { <<"data", "/", "transcripts", "/", "t", ".txt">> }
      [] src = "github" -> { <<"docs", "/", "a", ".md">> }
      [] src = "gdrive" -> { <<"TEC">> }
      [] src = "gmail" -> { <<"TEC">> }

\* ... and names of files in a secrets directory.  A repository path is
\* relative to the repository root, as the tree listing gives it; a Drive
\* name with an extension is an uploaded file, one without a native document;
\* a mailbox name is the subject.
SensitiveNames(src) ==
    CASE src = "fs" -> { <<"/", "raw", "/", "secrets", "/", "a", ".md">> }
      [] src = "transcripts" -> { <<"data", "/", "transcripts", "/", "secrets", "/", "t", ".txt">> }
      [] src = "github" -> { <<"secrets", "/", "a", ".md">>,
                             <<"src", "/", "secrets", "/", "a", ".md">> }
      [] src = "gdrive" -> { <<"x", "/", "secrets", "/", "TEC", ".md">> }
      [] src = "gmail" -> { <<"x", "/", "secrets", "/", "y">> }

\* what a plain document holds: whitespace only, or an address and a word
Bodies == { <<"s">>, <<"e", "s", "w">> }

\* a document at a source; fetch = FALSE: reading or downloading it fails.
\* The sensitive ones hold valid text.
DocsAt(src) ==
    {[src |-> src, name |-> n, body |-> b, fetch |-> TRUE] : n \in PlainNames(src), b \in Bodies}
    \cup {[src |-> src, name |-> n, body |-> <<"w">>, fetch |-> FALSE] : n \in PlainNames(src)}
    \cup {[src |-> src, name |-> n, body |-> <<"w">>, fetch |-> TRUE] : n \in SensitiveNames(src)}

AllDocs == UNION {DocsAt(Sources[n]) : n \in DOMAIN Sources}

\* the documents source src lists, in listing order
Listing(src) == LET At(d) == d.src = src IN SelectSeq(world, At)

\* CHUNK_TOKENS / CHUNK_OVERLAP of the pipeline's process: the defaults, or
\* windows of two tokens without overlap
PipelineEnvs == { <<<<>>, <<>>>>, <<<<2>>, <<0>>>> }

\* MODEL_EMBED / OPENAI_API_KEY of the pipeline's process: the local
\* embedder chosen, a remote model named without a key, the default with a key
EmbedConfigs ==
    { <<<<"local">>, FALSE>>, <<<<"text-embedding-3-large">>, FALSE>>, <<<<>>, TRUE>> }

\* every remote connector ready, or one of them switched off, without a
\* credential, or failing its listing call
RemoteConfigs ==
    {r \in [Remotes -> {"off", "nocred", "down", "on"}] :
        Cardinality({x \in Remotes : r[x] # "on"}) <= 1}

IngestInit ==
    /\ SearchIdle
    /\ AuxIdle
    /\ cpc = "idle" /\ args = <<>> /\ toks = <<>> /\ chunk_tokens = 0 /\ overlap = 0
    /\ i = 0 /\ out = <<>> /\ ret = <<>>
    /\ \E e \in PipelineEnvs : envChunkTokens = e[1] /\ envChunkOverlap = e[2]
    /\ SCRUB \in BOOLEAN
    /\ \E e \in EmbedConfigs : MODEL_EMBED = e[1] /\ OPENAI_API_KEY = e[2]
    \* the embedding configuration is varied with scrubbing on and small windows
    /\ MODEL_EMBED # <<"local">> => (SCRUB /\ envChunkOverlap = <<0>>)
    /\ ~SCRUB => envChunkOverlap = <<0>>
    /\ remote \in RemoteConfigs
    /\ world \in {w \in SeqsUpTo(AllDocs, MaxDocs) :
                    /\ \A a \in 1..(Len(w) - 1) : Rank(w[a].src) <= Rank(w[a + 1].src)
                    /\ \A a \in 1..Len(w) : w[a].src \in Remotes => remote[w[a].src] \in {"on", "nocred"}}
    /\ store = EmptyMap
    /\ pc = "idle"
    /\ idx = 0
    /\ entered = {}
    /\ written = EmptyMap
    /\ snap = <<>>

\* a connector that lists whatever the service holds, credential or not
ReachableIgnoringCred(src) ==
    IF src \in Remotes
    THEN (IF remote[src] \in {"on", "nocred"} THEN Listing(src) ELSE <<>>)
    ELSE Listing(src)

\* what a connector yields from: a remote one nothing unless it is switched
\* on, has its credential and answers (github_loader.py lines 7-9,
\* gdrive_loader.py lines 17-19, gmail_loader.py lines 17-19, and the
\* *_ENABLE tests of the pipeline)
Reachable(src) ==
    IF src \in Remotes THEN (IF remote[src] = "on" THEN Listing(src) ELSE <<>>)
    ELSE Listing(src)

\* lines 162-167, between two loop bodies: with k items of source number n
\* consumed, the run goes on to the next item there is, entering the ingest
\* functions in order; the listing call of a remote service that is down
\* raises and nothing catches it; after the mailbox the run is complete
RECURSIVE Advance(_, _, _)
Advance(n, k, ent) ==
    IF k < Len(Reachable(Sources[n]))
    THEN [pc |-> Sources[n], idx |-> k, entered |-> ent]
    ELSE IF n = Len(Sources)
    THEN [pc |-> "done", idx |-> 0, entered |-> ent]
    ELSE IF Sources[n + 1] \in Remotes /\ remote[Sources[n + 1]] = "down"
    THEN [pc |-> "crashed", idx |-> 0, entered |-> ent \cup {Sources[n + 1]}]
    ELSE Advance(n + 1, 0, ent \cup {Sources[n + 1]})

\* the loop goes on after the current item
GoOn ==
    LET a == Advance(Rank(pc), idx + 1, entered)
    IN  /\ pc' = a.pc
        /\ idx' = a.idx
        /\ entered' = a.entered

\* the effect of one pass through a loop body on the run
AfterBody(res) ==
    /\ IF res.kind = "stuck"
       THEN pc' = "stuck" /\ UNCHANGED <<idx, entered>>
       ELSE GoOn
    /\ store' = Upsert(store, res.entries)
    /\ written' = Upsert(written, res.entries)

\* an uncaught exception leaves __main__
Crash ==
    /\ pc' = "crashed"
    /\ UNCHANGED <<idx, entered, store, written>>

\* a caught exception or a continue: on to the next item
SkipItem ==
    /\ GoOn
    /\ UNCHANGED <<store, written>>

\* python -m tec_datacore.ingest.pipeline: line 163 calls ingest_fs
StartRun ==
    /\ pc \in {"idle", "done"}
    /\ LET a == Advance(1, 0, {Sources[1]})
       IN  /\ pc' = a.pc
           /\ idx' = a.idx
           /\ entered' = a.entered
    /\ written' = EmptyMap
    /\ snap' = IF pc = "done" THEN <<[store |-> store, written |-> written]>> ELSE snap
    /\ UNCHANGED <<SCRUB, MODEL_EMBED, OPENAI_API_KEY, remote, world, store>>
    /\ UNCHANGED <<chunkVars, searchVars, auxVars>>

\* lines 60-76: the next file of load_fs; read_bytes raising is not caught
FsItem ==
    /\ pc = "fs"
    /\ LET d == Reachable("fs")[idx + 1]
       IN  IF ~d.fetch THEN Crash
           ELSE AfterBody(LoopBody(d.name, SniffAndText(d.name, d.body), FullMeta(d.name)))
    /\ UNCHANGED <<SCRUB, MODEL_EMBED, OPENAI_API_KEY, remote, world, snap>>
    /\ UNCHANGED <<chunkVars, searchVars, auxVars>>

\* lines 80-97: the next transcript; read_text raising is not caught
TranscriptItem ==
    /\ pc = "transcripts"
    /\ LET d == Reachable("transcripts")[idx + 1]
       IN  IF ~d.fetch THEN Crash
           ELSE AfterBody(LoopBody(d.name, d.body, FullMeta(d.name)))
    /\ UNCHANGED <<SCRUB, MODEL_EMBED, OPENAI_API_KEY, remote, world, snap>>
    /\ UNCHANGED <<chunkVars, searchVars, auxVars>>

\* line 103, GITHUB_GLOBS unset: **/*.md, **/*.json, **/*.py
GITHUB_GLOBS ==
    { <<"*", "*", "/", "*", ".md">>,
      <<"*", "*", "/", "*", ".json">>,
      <<"*", "*", "/", "*", ".py">> }

\* github_loader.py lines 13-24 and pipeline.py lines 104-119: the next blob
GithubItem ==
    /\ pc = "github"
    /\ LET d == Reachable("github")[idx + 1]
       IN  IF ~(\E g \in GITHUB_GLOBS : FnMatch(d.name, g)) THEN SkipItem
           ELSE IF ~d.fetch THEN SkipItem
           ELSE AfterBody(LoopBody(d.name, SniffAndText(d.name, d.body), FullMeta(d.name)))
    /\ UNCHANGED <<SCRUB, MODEL_EMBED, OPENAI_API_KEY, remote, world, snap>>
    /\ UNCHANGED <<chunkVars, searchVars, auxVars>>

\* gdrive_loader.py lines 24-39: a native document is exported as text and
\* yielded under name + ".txt", any other file under its own name
GdriveYieldName(name) ==
    IF name[Len(name)] \in {".md", ".txt", ".key", ".env"} THEN name
    ELSE name \o <<".txt">>

\* gdrive_loader.py lines 23-41 and pipeline.py lines 125-140: the next file
GdriveItem ==
    /\ pc = "gdrive"
    /\ LET d == Reachable("gdrive")[idx + 1]
           name == GdriveYieldName(d.name)
       IN  IF ~d.fetch THEN SkipItem
           ELSE AfterBody(LoopBody(name, SniffAndText(name, d.body), FullMeta(name)))
    /\ UNCHANGED <<SCRUB, MODEL_EMBED, OPENAI_API_KEY, remote, world, snap>>
    /\ UNCHANGED <<chunkVars, searchVars, auxVars>>

\* gmail_loader.py line 37
GmailName(subject) == <<"gmail:">> \o subject

\* gmail_loader.py lines 21-40 and pipeline.py lines 146-160: the next message
GmailItem ==
    /\ pc = "gmail"
    /\ LET d == Reachable("gmail")[idx + 1]
           name == GmailName(d.name)
       IN  IF ~d.fetch THEN SkipItem
           ELSE AfterBody(LoopBody(name, d.body, MailMeta(name)))
    /\ UNCHANGED <<SCRUB, MODEL_EMBED, OPENAI_API_KEY, remote, world, snap>>
    /\ UNCHANGED <<chunkVars, searchVars, auxVars>>

Next ==
    \/ StartRun
    \/ FsItem
    \/ TranscriptItem
    \/ GithubItem
    \/ GdriveItem
    \/ GmailItem

Spec == IngestInit /\ [][Next]_vars

-----------------------------------------------------------------------------
(* Claims about ingestion *)

\* rag_api.py lines 68-78: a search result takes its source from the
\* metadata of the store entry it stands for
ResultSource(st, id) == st[id].meta.source

\* the name lies under a directory called secrets, or is a file called .env,
\* or has the extension .key
UnderSecretsDir(name) ==
    \E n \in 1..(Len(name) - 1) : name[n] = "secrets" /\ name[n + 1] = "/"

IsSensitive(name) ==
    \/ UnderSecretsDir(name)
    \/ name # <<>> /\ name[Len(name)] \in {".key", ".env"}

\* C3: a run over the same documents as the completed run before it leaves
\* the store as it was, entry count included, and writes the same ids with
\* the same text, embedding and metadata as that run did.
C3_IngestionIdempotent ==
    pc = "done" /\ snap # <<>> =>
        /\ Cardinality(DOMAIN store) = Cardinality(DOMAIN snap[1].store)
        /\ store = snap[1].store
        /\ written = snap[1].written

\* a second run has completed and has written entries
C3_Witness ==
    /\ pc = "done"
    /\ snap # <<>>
    /\ written # EmptyMap
    /\ Cardinality(DOMAIN store) > 1

\* C4: whatever has been ingested, from whatever source, no store entry has
\* a source that fnmatch matches against a blocklist pattern, and so no
\* search result, which stands for a store entry, carries such a source.
C4_BlocklistExclusion ==
    \A id \in DOMAIN store :
        /\ \A pat \in BLOCKLIST : ~FnMatch(store[id].meta.source, pat)
        /\ \A pat \in BLOCKLIST : ~FnMatch(ResultSource(store, id), pat)

\* a run over a world with a file whose path matches **/secrets/** and a
\* file that is ingested has completed
C4_Witness ==
    /\ pc = "done"
    /\ store # EmptyMap
    /\ \E n \in DOMAIN world :
          /\ world[n].src \in {"fs", "transcripts", "github"}
          /\ world[n].fetch
          /\ \E pat \in BLOCKLIST : FnMatch(world[n].name, pat)

\* C5: under the default blocklist no document below a secrets directory,
\* called .env or ending in .key reaches the index, whichever connector
\* yields it and whatever the shape of its path.
C5_SensitiveNeverIndexed ==
    \A id \in DOMAIN store : ~IsSensitive(store[id].meta.source)

\* C6: when a full run has ended, every source that is not switched off has
\* had its ingest function called: a failure at one source has not kept the
\* run from the others.
C6_FailureIsolation ==
    pc \in {"done", "crashed"} =>
        \A n \in DOMAIN Sources :
            (Sources[n] \in Remotes => remote[Sources[n]] # "off")
                => Sources[n] \in entered

\* the name under which a connector yields a document
YieldedName(d) ==
    CASE d.src = "gdrive" -> GdriveYieldName(d.name)
      [] d.src = "gmail" -> GmailName(d.name)
      [] OTHER -> d.name

\* C14: a remote connector without its credential yields nothing and does
\* not raise: the run never stands at one of its items, does not crash in
\* it, and no document it holds is upserted.
C14_NoCredentialYieldsNothing ==
    \A src \in Remotes :
        remote[src] = "nocred" =>
            /\ pc # src
            /\ pc = "crashed" => src \notin entered
            /\ \A n \in DOMAIN world :
                  world[n].src = src =>
                     \A id \in DOMAIN store : store[id].meta.source # YieldedName(world[n])

\* a run has gone through a connector without credential whose service
\* holds a readable, non-blank document with an unblocked name
C14_Witness ==
    /\ pc = "done"
    /\ envChunkOverlap = <<0>>
    /\ \E n \in DOMAIN world :
          /\ world[n].src \in Remotes
          /\ remote[world[n].src] = "nocred"
          /\ world[n].src \in entered
          /\ world[n].fetch
          /\ Strip(world[n].body) # <<>>
          /\ world[n].name \in PlainNames(world[n].src)

\* the document would be ingested if the loop reached it: it can be read,
\* its name passes the repository globs and the blocklist, it is not blank
Ingestible(d) ==
    /\ d.fetch
    /\ d.src = "github" => \E g \in GITHUB_GLOBS : FnMatch(d.name, g)
    /\ ~(\E pat \in BLOCKLIST : FnMatch(YieldedName(d), pat))
    /\ Strip(d.body) # <<>>

\* C15: at every connector a failure to fetch or read one item skips that
\* item only: when the run has ended, every ingestible item listed after
\* it at the same source is in the store.
C15_ItemFailureSkipped ==
    pc \in {"done", "crashed"} =>
        \A n \in DOMAIN world, m \in DOMAIN world :
            (/\ n < m
             /\ world[n].src = world[m].src
             /\ world[n].src \in entered
             /\ world[n].src \in Remotes => remote[world[n].src] = "on"
             /\ ~world[n].fetch
             /\ Ingestible(world[m]))
            => \E id \in DOMAIN store : store[id].meta.source = YieldedName(world[m])

\* C16: with a remote embedding model selected and no credential set, the
\* pipeline stops with a configuration error at its start: no run gets to
\* its items and nothing is ever written to the store.
C16_ConfigErrorAtStart ==
    (MODEL_EMBED # <<"local">> /\ ~OPENAI_API_KEY) =>
        /\ pc \in {"idle", "crashed"}
        /\ store = EmptyMap
        /\ written = EmptyMap

\* rag_api.py lines 16 and 37-41: search hands query_texts to the
\* collection, which embeds them with its own embedding function; the
\* collection is opened without one, so it is the store's built-in default
QueryEmbedder == "collection-default"

\* C17: the vector of a query is produced by the embedder that produced the
\* stored vectors it is compared with: every entry a search can meet was
\* embedded by the backend that embeds the query.
C17_QueryUsesPipelineEmbedder ==
    \A id \in DOMAIN store : store[id].emb.backend = QueryEmbedder

\* C18: every stored entry, whatever its source, has metadata with exactly
\* the keys source, project and category.
C18_MetadataComplete ==
    \A id \in DOMAIN store :
        DOMAIN store[id].meta = {"source", "project", "category"}

\* the text the pipeline extracts from a document
ExtractedText(d) ==
    IF d.src \in {"transcripts", "gmail"} THEN d.body
    ELSE SniffAndText(YieldedName(d), d.body)

\* the chunks the pipeline makes of a document
ChunksOf(d) ==
    PipelineChunks(IF SCRUB THEN PiiScrub(ExtractedText(d)) ELSE ExtractedText(d)).chunks

\* C19: in every state of the store, between the upserts of a run, after a
\* crash or a hang included, every entry is complete: its id is the hash of
\* source#index for its metadata source, and its text and embedding are
\* those of chunk number index of a document listed under that name.
C19_EntriesAligned ==
    \A id \in DOMAIN store :
        /\ DOMAIN store[id] = {"text", "emb", "meta"}
        /\ id = DocId(store[id].meta.source, id[2])
        /\ \E n \in DOMAIN world :
              /\ YieldedName(world[n]) = store[id].meta.source
              /\ id[2] \in 0..(Len(ChunksOf(world[n])) - 1)
              /\ store[id].text = ChunksOf(world[n])[id[2] + 1]
              /\ store[id].emb = Embed(<<ChunksOf(world[n])[id[2] + 1]>>)[1]

\* a run stands between two documents, or has crashed, with both chunks of
\* a two-chunk document in the store
C19_Witness ==
    /\ pc \in {"transcripts", "github", "gdrive", "gmail", "crashed"}
    /\ \E id \in DOMAIN store :
          /\ id[2] = 1
          /\ DocId(id[1], 0) \in DOMAIN store
          /\ store[id].text # store[DocId(id[1], 0)].text

\* the stages in the order of the data flow, none left out: the Extractor
\* on the yielded name and bytes, the scrub when enabled, the chunker
StagedChunks(d) ==
    LET txt == SniffAndText(YieldedName(d), d.body)
    IN  PipelineChunks(IF SCRUB THEN PiiScrub(txt) ELSE txt).chunks

\* C24: every stored entry, whatever its source type, is a chunk of a
\* listed document whose name passed the blocklist and whose bytes went
\* through the Extractor, then the scrub when enabled, then the chunker.
C24_StagesInOrder ==
    \A id \in DOMAIN store :
        \E n \in DOMAIN world :
            /\ YieldedName(world[n]) = store[id].meta.source
            /\ ~Blocked(YieldedName(world[n]))
            /\ id[2] \in 0..(Len(StagedChunks(world[n])) - 1)
            /\ store[id].text = StagedChunks(world[n])[id[2] + 1]

\* the document is one the run ingests: its connector yields it and the
\* loop body upserts its chunks
Ingested(d) ==
    /\ d.src \in Remotes => remote[d.src] = "on"
    /\ Ingestible(d)

\* the chunks of the ingested documents among the first n listed
RECURSIVE ChunkCount(_)
ChunkCount(n) ==
    IF n = 0 THEN 0
    ELSE ChunkCount(n - 1)
           + (IF Ingested(world[n]) THEN Len(ChunksOf(world[n])) ELSE 0)

\* a file tree or a repository tree lists a path once; a mailbox or a
\* drive may hold the same subject or file name twice
PathsListedOnce ==
    \A n \in DOMAIN world, m \in DOMAIN world :
        (n # m /\ world[n].src = world[m].src /\ world[n].src \notin {"gdrive", "gmail"})
            => world[n].name # world[m].name

\* C25: a completed run has written one entry per chunk of each document
\* it ingested: no two documents wrote to the same id.
C25_NoCrossDocumentOverwrite ==
    (pc = "done" /\ PathsListedOnce) =>
        Cardinality(DOMAIN written) = ChunkCount(Len(world))

-----------------------------------------------------------------------------
(* Runs of the pipeline with documents edited between them *)

\* what an edited document holds: one chunk's worth or two
EditBodies == { <<"w">>, <<"e", "s", "w">> }

\* scrubbing on, windows of two tokens without overlap, the local embedder,
\* every remote connector ready, every document readable and plainly named
ReingestInit ==
    /\ IngestInit
    /\ SCRUB
    /\ envChunkOverlap = <<0>>
    /\ MODEL_EMBED = <<"local">>
    /\ \A src \in Remotes : remote[src] = "on"
    /\ \A n \in DOMAIN world : world[n].fetch /\ world[n].name \in PlainNames(world[n].src)

\* after the first completed run somebody changes the content of one
\* document; the next run is a new process
EditDoc ==
    /\ pc = "done"
    /\ snap = <<>>
    /\ \E n \in DOMAIN world, b \in EditBodies :
          /\ b # world[n].body
          /\ world' = [world EXCEPT ![n].body = b]
    /\ pc' = "idle"
    /\ snap' = <<[store |-> store, written |-> written]>>
    /\ UNCHANGED <<SCRUB, MODEL_EMBED, OPENAI_API_KEY, remote, store, idx, entered,
                   written>>
    /\ UNCHANGED <<chunkVars, searchVars, auxVars>>

\* after the first completed run somebody removes one document from its
\* source (a rename is a removal and a new document)
RemoveDoc ==
    /\ pc = "done"
    /\ snap = <<>>
    /\ \E n \in DOMAIN world :
          world' = SubSeq(world, 1, n - 1) \o SubSeq(world, n + 1, Len(world))
    /\ pc' = "idle"
    /\ snap' = <<[store |-> store, written |-> written]>>
    /\ UNCHANGED <<SCRUB, MODEL_EMBED, OPENAI_API_KEY, remote, store, idx, entered,
                   written>>
    /\ UNCHANGED <<chunkVars, searchVars, auxVars>>

\* the ways the store can rank its entries for a query and hand back the
\* n nearest: any n distinct ids (all of them when there are fewer)
StoreRankings(st, n) ==
    {r \in SeqsUpTo(DOMAIN st, Min(n, Cardinality(DOMAIN st))) :
        /\ Len(r) = Min(n, Cardinality(DOMAIN st))
        /\ \A a \in DOMAIN r, c \in DOMAIN r : a # c => r[a] # r[c]}

\* the candidates as the handler sees them, nearest first
AsCandidates(ids) == [m \in DOMAIN ids |-> [d |-> m - 1, fuzz |-> 0, id |-> ids[m]]]

\* a query that evicts an entry it has read
StoreAfterQueryEvicts(st, ids) ==
    IF ids = <<>> THEN st ELSE [id \in DOMAIN st \ {ids[1]} |-> st[id]]

\* rag_api.py lines 37-41: coll.query reads the collection; the handler
\* makes no other call on it
StoreAfterQuery(st, ids) == st

\* rag_api.py lines 30-80: POST /search against the store the pipeline
\* writes, at any moment of a run.  A result carries the score, the source
\* and the text of its entry.
SearchStore ==
    /\ spc = "idle"
    /\ \E q \in {<<"s">>, <<"w">>}, k \in 1..MaxK :
          \E ids \in StoreRankings(store, NResults(RERANK_ENABLE, RERANK_CAND_MULT, k)) :
             LET r == RagSearch(RERANK_ENABLE, RERANK_ALPHA, RERANK_CAND_MULT,
                                rf_process, rf_fails, AsCandidates(ids), q, k)
             IN  /\ req' = [q |-> q, k |-> k, to |-> "datacore"]
                 /\ resp' = [status  |-> r.status,
                             results |-> [m \in DOMAIN r.results |->
                                 [score  |-> r.results[m].score,
                                  source |-> store[ids[r.results[m].doc + 1]].meta.source,
                                  text   |-> store[ids[r.results[m].doc + 1]].text]]]
                 /\ queries' = queries \o r.queried
                 /\ store' = IF r.queried = <<>> THEN store ELSE StoreAfterQuery(store, ids)
    /\ spc' = "done"
    /\ UNCHANGED <<RERANK_ENABLE, RERANK_ALPHA, RERANK_CAND_MULT, rf_process, rf_fails,
                   coll, bresp, provenance>>
    /\ UNCHANGED <<SCRUB, MODEL_EMBED, OPENAI_API_KEY, remote, world, pc, idx, entered,
                   written, snap>>
    /\ UNCHANGED <<chunkVars, auxVars>>

ReingestNext ==
    \/ StartRun
    \/ FsItem
    \/ TranscriptItem
    \/ GithubItem
    \/ GdriveItem
    \/ GmailItem
    \/ EditDoc
    \/ RemoveDoc
    \/ SearchStore

ReingestSpec == ReingestInit /\ [][ReingestNext]_vars

\* C20: after a run over sources whose content has changed the store holds
\* at most one entry per (source name, chunk index), and each entry's text
\* and embedding are those of that chunk of the version just ingested.
C20_LastWriteWins ==
    pc = "done" =>
        /\ \A a \in DOMAIN store, c \in DOMAIN store :
              (store[a].meta.source = store[c].meta.source /\ a[2] = c[2]) => a = c
        /\ \A id \in DOMAIN store :
              \E n \in DOMAIN world :
                 /\ YieldedName(world[n]) = store[id].meta.source
                 /\ id[2] \in 0..(Len(ChunksOf(world[n])) - 1)
                 /\ store[id].text = ChunksOf(world[n])[id[2] + 1]
                 /\ store[id].emb = Embed(<<ChunksOf(world[n])[id[2] + 1]>>)[1]

\* C21: a search leaves the store as it found it, whatever the query and
\* k, also when it is answered between two upserts of a run in flight.
C21_SearchReadOnly == [][req' # req => store' = store]_vars

\* a search that returned an entry was answered while a run stood between
\* two documents
C21_Witness ==
    /\ spc = "done"
    /\ pc \in {"transcripts", "github", "gdrive", "gmail"}
    /\ resp.status = 200
    /\ Len(resp.results) >= 1

\* C26: no step of an ingestion run takes an id out of the store, and an
\* entry the step does not write stays as it was: after a document was
\* shortened or removed, the entries of its former chunks are still there.
C26_StoreOnlyGrows ==
    [][\A id \in DOMAIN store :
          /\ id \in DOMAIN store'
          /\ id \notin DOMAIN written' => store'[id] = store[id]]_vars

\* a run after a document was shortened or removed is complete and the
\* store holds an entry that run did not write
C26_Witness ==
    /\ pc = "done"
    /\ snap # <<>>
    /\ \E id \in DOMAIN store : id \notin DOMAIN written

-----------------------------------------------------------------------------
(* ingest/scrub.py: pii_scrub applied to its own output *)

ScrubTokens == {"w", "s", "e", "p", "k", "R"}

\* how often pii_scrub is applied in a row
ScrubApplications == 2

ScrubInit ==
    /\ ChunkIdle
    /\ SearchIdle
    /\ IngestIdle
    /\ EmbedIdle
    /\ ToolIdle
    /\ \E x \in SeqsUpTo(ScrubTokens, MaxToks) : scrubRuns = <<x>>

\* one more call of pii_scrub, on the result of the last
ScrubAgain ==
    /\ scrubRuns # <<>>
    /\ Len(scrubRuns) <= ScrubApplications
    /\ scrubRuns' = Append(scrubRuns, PiiScrub(scrubRuns[Len(scrubRuns)]))
    /\ UNCHANGED <<chunkVars, searchVars, ingestVars, embedVars, toolVars>>

ScrubNext == ScrubAgain

ScrubSpec == ScrubInit /\ [][ScrubNext]_vars

\* C22: pii_scrub(pii_scrub(x)) = pii_scrub(x) for every text x, the scrub
\* being the e-mail, then the phone, then the key substitution, each
\* writing the marker [REDACTED].
C22_ScrubIdempotent ==
    Len(scrubRuns) > 2 =>
        /\ scrubRuns[2] = KeySub(PhoneSub(EmailSub(scrubRuns[1])))
        /\ scrubRuns[3] = scrubRuns[2]

\* scrubbed twice, a text in which a key follows a phone number directly:
\* the key is matched only once the number before it has become the marker
C22_Witness ==
    /\ Len(scrubRuns) > 2
    /\ \E n \in 1..(Len(scrubRuns[1]) - 1) :
          /\ scrubRuns[1][n] = "p"
          /\ scrubRuns[1][n + 1] = "k"
          /\ scrubRuns[2][n + 1] = "R"

-----------------------------------------------------------------------------
(* services/airth/embedding_service.py: ensure_embedding called by          *)
(* concurrent ingest_thoughtmap requests and backfill runs.  Every caller   *)
(* has its own connection with autocommit on, so each statement is a        *)
(* transaction of its own and the statements of the callers interleave.     *)

\* the processes at work: requests of the service, runs of the script
NumWorkers == 2

Workers == 1..NumWorkers

\* embedding_service.py line 15: EMBED_MODEL, not set in the environment
EMBED_MODEL == "text-embedding-3-small"

\* embed_backfill.py line 8: what --model can name
EmbedModels == {"text-embedding-3-small", "text-embedding-3-large"}

\* the rows of "LoreVersion": an entry with two versions, one whose text
\* is blank
LoreVersion ==
    << [loreEntryId |-> "l1", content |-> <<"w">>],
       [loreEntryId |-> "l1", content |-> <<"w", "w">>],
       [loreEntryId |-> "l2", content |-> <<"s">>] >>

LoreIds == {LoreVersion[n].loreEntryId : n \in DOMAIN LoreVersion}

\* the (loreEntryId, model) pair of a call
PairOf(c) == <<c.lore_entry_id, c.model>>

EmbedInit ==
    /\ ChunkIdle
    /\ SearchIdle
    /\ IngestIdle
    /\ ScrubIdle
    /\ ToolIdle
    /\ ENABLE_RAG \in BOOLEAN
    /\ embeddingUnique \in BOOLEAN
    /\ Embedding = [pr \in LoreIds \X EmbedModels |-> 0]
    /\ epc = [w \in Workers |-> "idle"]
    /\ equeue = [w \in Workers |-> <<>>]
    /\ ecaller = [w \in Workers |-> "none"]
    /\ eret = [w \in Workers |-> "none"]

\* lines 117-121: ingest_thoughtmap calls ensure_embedding(lore_id, combined)
\* when RAG is enabled, with the default model
ThoughtmapStart ==
    \E w \in Workers, v \in DOMAIN LoreVersion :
        /\ epc[w] = "idle"
        /\ epc' = [epc EXCEPT ![w] = "loop"]
        /\ ecaller' = [ecaller EXCEPT ![w] = "thoughtmap"]
        /\ equeue' = [equeue EXCEPT ![w] =
               IF ENABLE_RAG
               THEN << [lore_entry_id |-> LoreVersion[v].loreEntryId,
                        content |-> LoreVersion[v].content,
                        model |-> EMBED_MODEL] >>
               ELSE <<>>]
        /\ UNCHANGED <<ENABLE_RAG, embeddingUnique, Embedding, eret>>
        /\ UNCHANGED <<chunkVars, searchVars, ingestVars, scrubVars, toolVars>>

\* embed_backfill.py lines 11-22: the versions of the entries that have no
\* embedding for the model, read in one statement before the loop
BackfillRows(model) ==
    LET Lacking(v) == Embedding[<<v.loreEntryId, model>>] = 0
        rows == SelectSeq(LoreVersion, Lacking)
    IN  [n \in DOMAIN rows |->
            [lore_entry_id |-> rows[n].loreEntryId, content |-> rows[n].content,
             model |-> model]]

BackfillStart ==
    \E w \in Workers, model \in EmbedModels :
        /\ epc[w] = "idle"
        /\ epc' = [epc EXCEPT ![w] = "loop"]
        /\ ecaller' = [ecaller EXCEPT ![w] = "backfill"]
        /\ equeue' = [equeue EXCEPT ![w] = BackfillRows(model)]
        /\ UNCHANGED <<ENABLE_RAG, embeddingUnique, Embedding, eret>>
        /\ UNCHANGED <<chunkVars, searchVars, ingestVars, scrubVars, toolVars>>

\* ensure_embedding returns r to worker w, which goes on with its next call
Returns(w, r) ==
    /\ eret' = [eret EXCEPT ![w] = r]
    /\ equeue' = [equeue EXCEPT ![w] = Tail(equeue[w])]
    /\ epc' = [epc EXCEPT ![w] = "loop"]

\* ensure_embedding raises: ingest_thoughtmap swallows it (lines 118-121),
\* the backfill loop does not catch it (embed_backfill.py lines 23-25)
Raises(w) ==
    /\ eret' = [eret EXCEPT ![w] = "raised"]
    /\ equeue' = [equeue EXCEPT ![w] = Tail(equeue[w])]
    /\ epc' = [epc EXCEPT ![w] = IF ecaller[w] = "backfill" THEN "crashed" ELSE "loop"]

\* lines 52-56 and the loop of the caller: the next call, or none is left
EnsureCall ==
    \E w \in Workers :
        /\ epc[w] = "loop"
        /\ IF equeue[w] = <<>>
           THEN /\ epc' = [epc EXCEPT ![w] = "done"]
                /\ UNCHANGED <<equeue, eret>>
           ELSE IF Strip(Head(equeue[w]).content) = <<>> \/ ~ENABLE_RAG
           THEN Returns(w, "False")
           ELSE /\ epc' = [epc EXCEPT ![w] = "select"]
                /\ UNCHANGED <<equeue, eret>>
        /\ UNCHANGED <<ENABLE_RAG, embeddingUnique, Embedding, ecaller>>
        /\ UNCHANGED <<chunkVars, searchVars, ingestVars, scrubVars, toolVars>>

\* line 58: SELECT id FROM "Embedding" WHERE "loreEntryId"=.. AND model=..
SelectFinds(pr) == Embedding[pr] > 0

\* lines 58-60: the SELECT and the test of its result
EnsureSelect ==
    \E w \in Workers :
        /\ epc[w] = "select"
        /\ IF SelectFinds(PairOf(Head(equeue[w])))
           THEN Returns(w, "False")
           ELSE /\ epc' = [epc EXCEPT ![w] = "generate"]
                /\ UNCHANGED <<equeue, eret>>
        /\ UNCHANGED <<ENABLE_RAG, embeddingUnique, Embedding, ecaller>>
        /\ UNCHANGED <<chunkVars, searchVars, ingestVars, scrubVars, toolVars>>

\* lines 61-63 and 32-40: generate_embedding gives a vector, gives none, or
\* raises (no client, no key, the remote call fails)
EnsureGenerate ==
    \E w \in Workers, outcome \in {"vector", "empty", "raise"} :
        /\ epc[w] = "generate"
        /\ CASE outcome = "vector" ->
                  /\ epc' = [epc EXCEPT ![w] = "insert"]
                  /\ UNCHANGED <<equeue, eret>>
             [] outcome = "empty" -> Returns(w, "False")
             [] outcome = "raise" -> Raises(w)
        /\ UNCHANGED <<ENABLE_RAG, embeddingUnique, Embedding, ecaller>>
        /\ UNCHANGED <<chunkVars, searchVars, ingestVars, scrubVars, toolVars>>

\* lines 64-67: INSERT INTO "Embedding" .. VALUES (gen_random_uuid(), ..):
\* one more row, whatever rows there are
InsertedRows(pr) == Embedding[pr] + 1

\* lines 64-68: the INSERT; a unique index rejects a second row of a pair
EnsureInsert ==
    \E w \in Workers :
        /\ epc[w] = "insert"
        /\ LET pr == PairOf(Head(equeue[w]))
           IN  IF embeddingUnique /\ Embedding[pr] > 0
               THEN Raises(w) /\ UNCHANGED Embedding
               ELSE /\ Embedding' = [Embedding EXCEPT ![pr] = InsertedRows(pr)]
                    /\ Returns(w, "True")
        /\ UNCHANGED <<ENABLE_RAG, embeddingUnique, ecaller>>
        /\ UNCHANGED <<chunkVars, searchVars, ingestVars, scrubVars, toolVars>>

EmbedNext ==
    \/ ThoughtmapStart
    \/ BackfillStart
    \/ EnsureCall
    \/ EnsureSelect
    \/ EnsureGenerate
    \/ EnsureInsert

EmbedSpec == EmbedInit /\ [][EmbedNext]_vars

\* C29: whatever the interleaving of the callers, the table holds at most
\* one row for a (loreEntryId, model) pair.
C29_AtMostOneRowPerPair ==
    \A pr \in DOMAIN Embedding : Embedding[pr] <= 1

-----------------------------------------------------------------------------
(* tec_mcp_server/tec_core/tool_orchestrator.py: ToolOrchestrator.execute_tool *)

\* how many calls of execute_tool one orchestrator serves
MaxCalls == 3

\* lines 93-134: a built-in tool, whose handler reads parameters.get(..);
\* lines 136-179: an external script, whose handler catches every exception
BuiltinTools == {"narrative_generator"}

ExternalTools == {"agentic_processor"}

\* the names a caller asks for: the registered ones and one that is not
ToolNames == BuiltinTools \cup ExternalTools \cup {"no_such_tool"}

\* the parameters of a call: a dict, or None
ToolParameters == {"dict", "None"}

ToolInit ==
    /\ ChunkIdle
    /\ SearchIdle
    /\ IngestIdle
    /\ ScrubIdle
    /\ EmbedIdle
    /\ available_tools = BuiltinTools \cup ExternalTools
    /\ execution_history = <<>>
    /\ tpc = "idle"
    /\ tcall = <<>>
    /\ tresult = <<>>

\* lines 219-226 with execution_record bound: the except block marks the
\* record failed and returns the error value
ErrorValue(tool_name, err) == [success |-> FALSE, error |-> err, tool_name |-> tool_name]

\* lines 192-205: the lookup; for a registered tool the record is appended
\* with status 'executing'.  For a name that is not registered line 194
\* raises ValueError into the except block of line 217, where line 219
\* assigns to execution_record['status']: the local was never bound, so
\* the block raises UnboundLocalError and the call raises.
ExecuteTool ==
    /\ tpc \in {"idle", "done"}
    /\ Len(execution_history) < MaxCalls
    /\ \E tool_name \in ToolNames, parameters \in ToolParameters :
          /\ tcall' = <<[tool_name |-> tool_name, parameters |-> parameters]>>
          /\ IF tool_name \notin available_tools
             THEN /\ tpc' = "done"
                  /\ tresult' = <<[kind |-> "raised", value |-> "UnboundLocalError"]>>
                  /\ UNCHANGED execution_history
             ELSE /\ tpc' = "executing"
                  /\ tresult' = <<>>
                  /\ execution_history' = Append(execution_history,
                         [tool_name |-> tool_name, parameters |-> parameters,
                          status |-> "executing"])
    /\ UNCHANGED available_tools
    /\ UNCHANGED <<chunkVars, searchVars, ingestVars, scrubVars, embedVars>>

\* what the handler of a registered tool does: a built-in one returns its
\* result for a dict and raises AttributeError on parameters.get when
\* parameters is None (lines 228-338); an external one returns the
\* script's result or an error value of its own (lines 340-383)
HandlerOutcomes(tool_name, parameters) ==
    IF tool_name \in BuiltinTools
    THEN (IF parameters = "dict" THEN {"success"} ELSE {"raise"})
    ELSE {"success", "script-error"}

\* lines 211-212 and 219-220: the status the record ends with
StatusAfter(outcome) == IF outcome = "raise" THEN "failed" ELSE "completed"

\* lines 208-226: the handler runs to its end; the record, the last of the
\* history, is updated and the call returns
HandlerDone ==
    /\ tpc = "executing"
    /\ LET c == tcall[1]
           n == Len(execution_history)
       IN  \E outcome \in HandlerOutcomes(c.tool_name, c.parameters) :
              /\ execution_history' =
                     [execution_history EXCEPT ![n].status = StatusAfter(outcome)]
              /\ tresult' = <<[kind |-> "returned",
                              value |-> CASE outcome = "success" -> [success |-> TRUE]
                                          [] outcome = "script-error" -> [success |-> FALSE]
                                          [] outcome = "raise" ->
                                               ErrorValue(c.tool_name, "AttributeError")]>>
    /\ tpc' = "done"
    /\ UNCHANGED <<available_tools, tcall>>
    /\ UNCHANGED <<chunkVars, searchVars, ingestVars, scrubVars, embedVars>>

ToolNext ==
    \/ ExecuteTool
    \/ HandlerDone

ToolSpec == ToolInit /\ [][ToolNext]_vars

\* C30: a call of execute_tool that has ended has returned a value; for a
\* name that is not registered that value is the error value and the
\* history holds no record of the call; every record of an ended call is
\* 'completed' or 'failed'.
C30_ExecuteToolNeverRaises ==
    /\ tpc = "done" => tresult[1].kind = "returned"
    /\ (tpc = "done" /\ tcall[1].tool_name \notin available_tools) =>
          /\ DOMAIN tresult[1].value = {"success", "error", "tool_name"}
          /\ tresult[1].value.success = FALSE
          /\ tresult[1].value.tool_name = tcall[1].tool_name
    /\ \A n \in DOMAIN execution_history :
          /\ execution_history[n].tool_name \in available_tools
          /\ (tpc # "executing" \/ n < Len(execution_history)) =>
                execution_history[n].status \in {"completed", "failed"}

=============================================================================
